---- MODULE Spec2Model ----
(***************************************************************************)
(* Diagnostic scoring engine (symptom_engine.py) and its orchestrator      *)
(* (diagnose_runs.py).                                                     *)
(*                                                                         *)
(* Floats are modelled as integers (z-scores and thresholds in the same    *)
(* unit); the two non-numeric values a run row can hold are kept apart:    *)
(* None (Python's None) and NaN (the float pandas puts in a cell that a    *)
(* join could not fill).                                                   *)
(***************************************************************************)
EXTENDS Integers, Sequences, FiniteSets, TLC

\* ------------------------------------------------------------------ bounds
MaxZ == 3
MaxThr == 3
MaxListLen == 2
NumRuns == 2

\* ------------------------------------------------------------------ values
None == [tag |-> "None", v |-> 0]
NaN == [tag |-> "nan", v |-> 0]
Num(n) == [tag |-> "float", v |-> n]

ZValues == {Num(n) : n \in (0 - MaxZ)..MaxZ}

\* Python's abs() on a float: abs(nan) is nan.
abs(z) == IF z.tag = "float" THEN Num(IF z.v < 0 THEN 0 - z.v ELSE z.v) ELSE z

\* a >= bound on floats: every comparison with nan is False.
Ge(a, bound) == a.tag = "float" /\ a.v >= bound

\* dict.get(k, default)
DictGet(d, k, default) == IF k \in DOMAIN d THEN d[k] ELSE default

\* ------------------------------------------------------- symptom_engine.py
Thresholds(severe, moderate, mild) ==
    [severe |-> severe, moderate |-> moderate, mild |-> mild]

classify_severity_signed(z, thr) ==
    IF Ge(z, thr.severe) THEN "severe"
    ELSE IF Ge(z, thr.moderate) THEN "moderate"
    ELSE IF Ge(z, thr.mild) THEN "mild"
    ELSE "normal"

classify_severity(z, thr) ==
    LET a == abs(z)
    IN  IF Ge(a, thr.severe) THEN "severe"
        ELSE IF Ge(a, thr.moderate) THEN "moderate"
        ELSE IF Ge(a, thr.mild) THEN "mild"
        ELSE "normal"

WEIGHT == [severe |-> 3, moderate |-> 2, mild |-> 1, normal |-> 0]

ZKey(m) == "z_" \o m
LocalKey(m) == m \o "_z_local"

\* run_row.get(f'z_{m}', run_row.get(f'{m}_z_local')): the default is used only
\* when the key is missing from the dict, not when it maps to None.
MetricValue(run_row, m) ==
    DictGet(run_row, ZKey(m), DictGet(run_row, LocalKey(m), None))

\* run_row.get(ind)
IndicatorValue(run_row, ind) == DictGet(run_row, ind, None)

\* thr_map.get(k, thr_map['global'])
ThrFor_global(thr_map, k) == thr_map["global"]

ThrFor(thr_map, k) == DictGet(thr_map, k, thr_map["global"])

Observe_unweighted(acc, cname, key, z, thr_map) ==
    IF z = None THEN acc
    ELSE LET sev == classify_severity(z, ThrFor(thr_map, key))
         IN  [scores  |-> [acc.scores EXCEPT ![cname] = @ + 1],
              records |-> Append(acc.records,
                             [metric |-> key, z |-> z,
                              severity |-> sev, cluster |-> cname])]

Observe_shared(acc, cname, key, z, thr_map) ==
    IF z = None THEN acc
    ELSE LET sev == classify_severity(z, ThrFor(thr_map, key))
         IN  [scores  |-> [c \in DOMAIN acc.scores |-> acc.scores[c] + WEIGHT[sev]],
              records |-> Append(acc.records,
                             [metric |-> key, z |-> z,
                              severity |-> sev, cluster |-> cname])]

\* The body shared by the two inner loops: skip on None, else classify,
\* add the weight to scores[cname] and append the record.
Observe(acc, cname, key, z, thr_map) ==
    IF z = None THEN acc
    ELSE LET sev == classify_severity(z, ThrFor(thr_map, key))
         IN  [scores  |-> [acc.scores EXCEPT ![cname] = @ + WEIGHT[sev]],
              records |-> Append(acc.records,
                             [metric |-> key, z |-> z,
                              severity |-> sev, cluster |-> cname])]

RECURSIVE ProcessMetrics(_, _, _, _, _)
ProcessMetrics(acc, cname, ms, run_row, thr_map) ==
    IF ms = <<>> THEN acc
    ELSE ProcessMetrics(
             Observe(acc, cname, Head(ms), MetricValue(run_row, Head(ms)), thr_map),
             cname, Tail(ms), run_row, thr_map)

RECURSIVE ProcessIndicators(_, _, _, _, _)
ProcessIndicators(acc, cname, inds, run_row, thr_map) ==
    IF inds = <<>> THEN acc
    ELSE ProcessIndicators(
             Observe(acc, cname, Head(inds), IndicatorValue(run_row, Head(inds)), thr_map),
             cname, Tail(inds), run_row, thr_map)

\* cluster_map['clusters'] is an insertion-ordered dict: a sequence of
\* [name, def] items with distinct names.
RECURSIVE ProcessClusters(_, _, _, _)
ProcessClusters(acc, items, run_row, thr_map) ==
    IF items = <<>> THEN acc
    ELSE LET cname == Head(items).name
             c     == Head(items).def
             a1    == ProcessMetrics(acc, cname, DictGet(c, "metrics", <<>>),
                                     run_row, thr_map)
             a2    == ProcessIndicators(a1, cname, DictGet(c, "indicators", <<>>),
                                        run_row, thr_map)
         IN  ProcessClusters(a2, Tail(items), run_row, thr_map)

ClusterNames(cluster_map) ==
    {cluster_map.clusters[i].name : i \in 1..Len(cluster_map.clusters)}

StrongMin == 6
ModerateMin == 3
WeakMin == 1

LabelOf_strict(s) ==
    IF s > StrongMin THEN "strong"
    ELSE IF s > ModerateMin THEN "moderate"
    ELSE IF s > WeakMin THEN "weak"
    ELSE "none"

LabelOf(s) ==
    IF s >= StrongMin THEN "strong"
    ELSE IF s >= ModerateMin THEN "moderate"
    ELSE IF s >= WeakMin THEN "weak"
    ELSE "none"

cluster_scores(run_row, cluster_map, thr_map) ==
    LET init == [scores  |-> [c \in ClusterNames(cluster_map) |-> 0],
                 records |-> <<>>]
        acc  == ProcessClusters(init, cluster_map.clusters, run_row, thr_map)
    IN  [scores  |-> acc.scores,
         labels  |-> [c \in DOMAIN acc.scores |-> LabelOf(acc.scores[c])],
         records |-> acc.records]

\* ------------------------------------------------------------------- state
VARIABLES
    run_row,        \* the dict handed to cluster_scores
    cluster_map,    \* configs/cluster_map.yaml as loaded
    thr_map,        \* key -> Thresholds, with 'global'
    result,         \* what the last cluster_scores call returned
    calls,          \* number of cluster_scores calls made
    thr,            \* classify_severity: the Thresholds under test
    classified,     \* classify_severity: the (z, severity) pairs returned so far
    pc,             \* diagnose_runs: position in the function body
    perrun_files,   \* diagnose_runs: glob.glob(metrics_pattern)
    fi,             \* diagnose_runs: index of the next file to read
    zwide,          \* diagnose_runs: merged z table, NoFrame while None
    wide,           \* diagnose_runs: zwide left-joined with physq
    thr_cfg,        \* diagnose_runs: severity_thresholds.yaml as loaded
    ri,             \* diagnose_runs: index of the next row of wide
    symptom_rows,   \* diagnose_runs: rows collected for the symptoms table
    cause_rows,     \* diagnose_runs: rows collected for the causes table
    outputs,        \* files written: name -> rows
    error           \* the exception that ended diagnose_runs, "" if none

engine_vars == <<run_row, cluster_map, thr_map, result, calls>>
classify_vars == <<thr, classified>>
diagnose_vars == <<pc, perrun_files, fi, zwide, wide, thr_cfg, ri,
                   symptom_rows, cause_rows, outputs, error>>
vars == <<run_row, cluster_map, thr_map, result, calls, thr, classified,
          pc, perrun_files, fi, zwide, wide, thr_cfg, ri,
          symptom_rows, cause_rows, outputs, error>>

EmptyDict == [k \in {} |-> 0]
NoResult == [scores |-> EmptyDict, labels |-> EmptyDict, records |-> <<>>]
NoFrame == [runs |-> {}, cols |-> {}, cell |-> EmptyDict, none |-> TRUE]
NoClusterMap == [clusters |-> <<>>]

EngineIdle ==
    /\ run_row = EmptyDict /\ cluster_map = NoClusterMap /\ thr_map = EmptyDict
    /\ result = NoResult /\ calls = 0
ClassifyIdle == thr = Thresholds(0, 0, 0) /\ classified = {}
DiagnoseIdle ==
    /\ pc = "idle" /\ perrun_files = <<>> /\ fi = 1 /\ zwide = NoFrame
    /\ wide = NoFrame /\ thr_cfg = EmptyDict /\ ri = 1
    /\ symptom_rows = <<>> /\ cause_rows = <<>> /\ outputs = EmptyDict
    /\ error = ""

\* ------------------------------------------- inputs of the engine (bounded)
BSeq(S, n) == UNION {[1..k -> S] : k \in 0..n}

RowKeys == {ZKey("A"), LocalKey("A"), "I"}
RowValues == {None, NaN} \cup ZValues
Rows == UNION {[D -> RowValues] : D \in SUBSET RowKeys}

ClusterMaps ==
    {[clusters |-> <<[name |-> "C", def |-> [metrics |-> ms, indicators |-> is]],
                     [name |-> "D", def |-> [indicators |-> <<"I">>]]>>] :
        ms \in BSeq({"A"}, MaxListLen), is \in BSeq({"I"}, 1)}

GlobalThr == Thresholds(3, 2, 1)
ThrMaps ==
    {[k \in {"global"} |-> GlobalThr],
     [k \in {"global", "A"} |-> IF k = "A" THEN Thresholds(2, 2, 2) ELSE GlobalThr],
     [k \in {"global", "A", "I"} |->
         IF k = "A" THEN Thresholds(2, 2, 2)
         ELSE IF k = "I" THEN Thresholds(3, 3, 3) ELSE GlobalThr]}

\* ------------------------------------------------- specification: engine
InitEngine ==
    /\ run_row \in Rows
    /\ cluster_map \in ClusterMaps
    /\ thr_map \in ThrMaps
    /\ result = NoResult
    /\ calls = 0
    /\ ClassifyIdle
    /\ DiagnoseIdle

\* scores, labels, records = cluster_scores(run_row, cluster_map, thr_map)
Call ==
    /\ calls = 0
    /\ result' = cluster_scores(run_row, cluster_map, thr_map)
    /\ calls' = 1
    /\ UNCHANGED <<run_row, cluster_map, thr_map, classify_vars, diagnose_vars>>

NextEngine == Call

SpecEngine == InitEngine /\ [][NextEngine]_vars

\* ---------------------------------------------------- claims on the engine
Returned == calls = 1

Items == cluster_map.clusters
MetricsOf(c) == DictGet(c, "metrics", <<>>)
IndicatorsOf(c) == DictGet(c, "indicators", <<>>)
Range(q) == {q[i] : i \in 1..Len(q)}

\* A key holds a value in the row: it is there and not None.
HasValue(row, k) == k \in DOMAIN row /\ row[k] # None

\* The keys a cluster definition can read from a row.
KeysOf(c) ==
    {ZKey(m) : m \in Range(MetricsOf(c))} \cup
    {LocalKey(m) : m \in Range(MetricsOf(c))} \cup Range(IndicatorsOf(c))

RecordsOf(res, cname) == SelectSeq(res.records, LAMBDA r : r.cluster = cname)

RECURSIVE SumWeights(_)
SumWeights(recs) ==
    IF recs = <<>> THEN 0
    ELSE (CASE Head(recs).severity = "normal" -> 0
            [] Head(recs).severity = "mild" -> 1
            [] Head(recs).severity = "moderate" -> 2
            [] Head(recs).severity = "severe" -> 3) + SumWeights(Tail(recs))

\* C1: every configured cluster's score is the sum of the weights (normal 0,
\* mild 1, moderate 2, severe 3) of exactly the records emitted for that
\* cluster, and a cluster none of whose keys holds a value scores 0 and is
\* labelled 'none'.
C1_ScoreIsSumOfWeights ==
    Returned =>
        /\ DOMAIN result.scores = ClusterNames(cluster_map)
        /\ DOMAIN result.labels = ClusterNames(cluster_map)
        /\ \A i \in 1..Len(Items) :
              LET cname == Items[i].name
              IN  /\ result.scores[cname] = SumWeights(RecordsOf(result, cname))
                  /\ (\A k \in KeysOf(Items[i].def) : ~HasValue(run_row, k))
                        => /\ result.scores[cname] = 0
                           /\ result.labels[cname] = "none"
        /\ \A j \in 1..Len(result.records) :
              result.records[j].cluster \in ClusterNames(cluster_map)

C1_Witness ==
    /\ Returned
    /\ result.scores["C"] = 4
    /\ Len(RecordsOf(result, "C")) = 2
    /\ \A k \in KeysOf(Items[2].def) : ~HasValue(run_row, k)
    /\ result.labels["D"] = "none"

LabelRank(l) ==
    CASE l = "none" -> 0 [] l = "weak" -> 1 [] l = "moderate" -> 2 [] l = "strong" -> 3

\* C2: the label of every cluster is 'strong' for a score of 6 or more,
\* 'moderate' for 3..5, 'weak' for 1..2 and 'none' for 0, with the same
\* breakpoints for every cluster, and a higher score never gets a lower label.
C2_LabelBreakpoints ==
    Returned =>
        /\ \A c \in DOMAIN result.scores :
              LET s == result.scores[c]
                  l == result.labels[c]
              IN  /\ s >= 0
                  /\ (s >= 6) => l = "strong"
                  /\ (3 <= s /\ s <= 5) => l = "moderate"
                  /\ (1 <= s /\ s <= 2) => l = "weak"
                  /\ (s = 0) => l = "none"
        /\ \A c1, c2 \in DOMAIN result.scores :
              result.scores[c1] <= result.scores[c2]
                 => LabelRank(result.labels[c1]) <= LabelRank(result.labels[c2])

C2_Witness ==
    /\ Returned
    /\ result.scores["C"] = 6 /\ result.labels["C"] = "strong"
    /\ result.scores["D"] = 3 /\ result.labels["D"] = "moderate"

C6_ThresholdResolution ==
    Returned =>
        \A j \in 1..Len(result.records) :
            LET r == result.records[j]
            IN  IF r.metric \in DOMAIN thr_map
                  THEN r.severity = classify_severity(r.z, thr_map[r.metric])
                  ELSE r.severity = classify_severity(r.z, thr_map["global"])

C6_Witness ==
    /\ Returned
    /\ "A" \in DOMAIN thr_map /\ "I" \notin DOMAIN thr_map
    /\ \E j \in 1..Len(result.records) :
          LET r == result.records[j]
          IN  r.metric = "A" /\ r.severity # classify_severity(r.z, thr_map["global"])
    /\ \E j \in 1..Len(result.records) :
          LET r == result.records[j]
          IN  r.metric = "I" /\ r.severity # classify_severity(r.z, thr_map["A"])

\* The part of a result that belongs to one cluster.
Proj(res, cname) ==
    [score |-> res.scores[cname], label |-> res.labels[cname],
     records |-> RecordsOf(res, cname)]

\* The row with key k set to v, or removed.
RowWith(row, k, v) == [x \in DOMAIN row \cup {k} |-> IF x = k THEN v ELSE row[x]]
RowWithout(row, k) == [x \in DOMAIN row \ {k} |-> row[x]]

Reverse(q) == [i \in 1..Len(q) |-> q[Len(q) + 1 - i]]

C10_OneRecordPerKeyAndCluster ==
    Returned =>
        \A i, j \in 1..Len(result.records) :
            (result.records[i].metric = result.records[j].metric
             /\ result.records[i].cluster = result.records[j].cluster) => i = j

\* --------------------------------------- specification: classify_severity
ThrRange == 0..MaxThr
ThresholdSets ==
    {Thresholds(sv, md, ml) : sv \in ThrRange, md \in ThrRange, ml \in ThrRange}

InitClassify ==
    /\ thr \in ThresholdSets
    /\ classified = {}
    /\ EngineIdle
    /\ DiagnoseIdle

\* sev = classify_severity(z, thr), for one more z
Classify(z) ==
    /\ \A r \in classified : r.z # z
    /\ classified' = classified \cup {[z |-> z, severity |-> classify_severity(z, thr)]}
    /\ UNCHANGED <<thr, engine_vars, diagnose_vars>>

NextClassify == \E z \in ZValues : Classify(z)

SpecClassify == InitClassify /\ [][NextClassify]_vars

SeverityRank(sev) ==
    CASE sev = "normal" -> 0 [] sev = "mild" -> 1
      [] sev = "moderate" -> 2 [] sev = "severe" -> 3

Magnitude(z) == IF z.v < 0 THEN 0 - z.v ELSE z.v

OrderedThresholds(t) == t.severe >= t.moderate /\ t.moderate >= t.mild /\ t.mild >= 0

\* C3: under thresholds with severe >= moderate >= mild >= 0, a value of
\* larger magnitude is never classified less severe than one of smaller
\* magnitude, and z and -z are classified alike.
C3_MonotoneInMagnitude ==
    OrderedThresholds(thr) =>
        \A r1, r2 \in classified :
            /\ Magnitude(r1.z) <= Magnitude(r2.z)
                  => SeverityRank(r1.severity) <= SeverityRank(r2.severity)
            /\ Magnitude(r1.z) = Magnitude(r2.z) => r1.severity = r2.severity

C3_Witness ==
    /\ thr = Thresholds(3, 2, 1)
    /\ \E r1, r2, r3, r4 \in classified :
          /\ r1.z = Num(0 - 3) /\ r1.severity = "severe"
          /\ r2.z = Num(3) /\ r2.severity = "severe"
          /\ r3.z = Num(0 - 1) /\ r3.severity = "mild"
          /\ r4.z = Num(0) /\ r4.severity = "normal"

\* ------------------------------------------------------- diagnose_runs.py
\* A DataFrame keyed by run: the runs it has a row for, its columns other
\* than 'run', and cell[run][column].
Frame(runs, cols, cell) == [runs |-> runs, cols |-> cols, cell |-> cell, none |-> FALSE]

Runs == 1..NumRuns
Metrics == {"A", "B"}
FileValues == {Num(0), Num(MaxZ)}

FileName(m) == "out/metrics_" \o m \o "_perrun.csv"

\* f.split('metrics_')[1].split('_perrun.csv')[0]
MetricNameOf(f) == CHOOSE m \in Metrics : FileName(m) = f

\* The per-run CSV of one metric: a row for some of the runs and one data
\* column, named as a z column or not.
MetricFrames(m) ==
    UNION {{Frame(R, {c}, [r \in R |-> [x \in {c} |-> val[r]]]) : val \in [R -> FileValues]} :
              R \in SUBSET Runs, c \in {ZKey(m), "z_local", LocalKey(m), "value"}}

\* out/physics_quality_perrun.csv
PhysqFrames ==
    UNION {{Frame(R, {"I"}, [r \in R |-> [x \in {"I"} |-> val[r]]]) : val \in [R -> FileValues]} :
              R \in SUBSET Runs}

NoCol == ""

\* next((c for c in z_col_candidates if c in df.columns), None)
ZCol(df, metric_name) ==
    LET cands == <<ZKey(metric_name), "z_local", LocalKey(metric_name)>>
        hits  == {i \in 1..Len(cands) : cands[i] \in df.cols}
    IN  IF hits = {} THEN NoCol
        ELSE cands[CHOOSE i \in hits : \A j \in hits : i <= j]

\* df[['run', z_col]].rename(columns={z_col: f'z_{metric_name}'})
SelectRename(df, z_col, new) ==
    Frame(df.runs, {new}, [r \in df.runs |-> [x \in {new} |-> df.cell[r][z_col]]])

\* left.merge(right, on='run', how=...): a cell the other side has no row
\* for is NaN.
Merge(left, right, runs) ==
    Frame(runs, left.cols \cup right.cols,
          [r \in runs |-> [c \in left.cols \cup right.cols |->
              IF c \in left.cols
                THEN (IF r \in left.runs THEN left.cell[r][c] ELSE NaN)
                ELSE (IF r \in right.runs THEN right.cell[r][c] ELSE NaN)]])

MergeOuter(left, right) == Merge(left, right, left.runs \cup right.runs)
MergeLeft(left, right) == Merge(left, right, left.runs)

\* The rows of a frame in the order iterrows() yields them.
RECURSIVE RowOrder(_)
RowOrder(runs) ==
    IF runs = {} THEN <<>>
    ELSE LET lo == CHOOSE r \in runs : \A q \in runs : r <= q
         IN  <<lo>> \o RowOrder(runs \ {lo})

\* row.to_dict()
RowDict(frame, r) ==
    [c \in frame.cols \cup {"run"} |-> IF c = "run" THEN Num(r) ELSE frame.cell[r][c]]

\* {'run': ..., 'metric': ..., 'z': ..., 'severity': ..., 'clusters': ...}
SymptomRow(row, r) ==
    [run |-> row["run"], metric |-> r.metric, z |-> r.z,
     severity |-> r.severity, clusters |-> r.cluster]

SymptomRowsOf(row, recs) == [j \in 1..Len(recs) |-> SymptomRow(row, recs[j])]

LabelKey(cname) == "label_" \o cname

\* cause_row: 'run', then for every cluster its score and its label
CauseRow(row, scores, labels) ==
    [k \in {"run"} \cup DOMAIN scores \cup {LabelKey(c) : c \in DOMAIN scores} |->
        IF k = "run" THEN [run |-> row["run"]]
        ELSE IF k \in DOMAIN scores THEN [score |-> scores[k]]
        ELSE [label |-> labels[CHOOSE c \in DOMAIN scores : LabelKey(c) = k]]]

ConfigClusterMaps ==
    {[clusters |-> <<[name |-> "C", def |-> [metrics |-> <<"A", "B">>,
                                               indicators |-> <<"I">>]],
                     [name |-> "D", def |-> [metrics |-> <<"B">>]]>>]}

ThrConfigs ==
    {[k \in {"global"} |-> GlobalThr],
     [k \in {"global", "A"} |-> IF k = "A" THEN Thresholds(2, 2, 2) ELSE GlobalThr],
     [k \in {"A"} |-> Thresholds(2, 2, 2)]}

GlobOrders == {q \in BSeq(Metrics, Cardinality(Metrics)) :
                  \A i, j \in 1..Len(q) : q[i] = q[j] => i = j}

InitDiagnose ==
    /\ pc = "glob" /\ perrun_files = <<>> /\ fi = 1 /\ zwide = NoFrame
    /\ wide = NoFrame /\ thr_cfg = EmptyDict /\ ri = 1
    /\ symptom_rows = <<>> /\ cause_rows = <<>> /\ outputs = EmptyDict
    /\ error = ""
    /\ EngineIdle
    /\ ClassifyIdle

Raise(exc) == pc' = "raised" /\ error' = exc

\* lines 14-16: perrun_files = glob.glob(metrics_pattern)
Glob ==
    /\ pc = "glob"
    /\ \E q \in GlobOrders :
          /\ perrun_files' = [i \in 1..Len(q) |-> FileName(q[i])]
          /\ IF q = <<>> THEN Raise("FileNotFoundError")
             ELSE pc' = "read" /\ error' = error
    /\ UNCHANGED <<fi, zwide, wide, thr_cfg, ri, symptom_rows, cause_rows, outputs,
                   engine_vars, classify_vars>>

\* lines 20-32: one iteration of the loop over perrun_files
ReadFile ==
    /\ pc = "read" /\ fi <= Len(perrun_files)
    /\ LET metric_name == MetricNameOf(perrun_files[fi])
       IN  \E df \in MetricFrames(metric_name) :
              LET z_col == ZCol(df, metric_name)
                  df_metric == SelectRename(df, z_col, ZKey(metric_name))
              IN  zwide' = IF z_col = NoCol THEN zwide
                           ELSE IF zwide.none THEN df_metric
                           ELSE MergeOuter(zwide, df_metric)
    /\ fi' = fi + 1
    /\ UNCHANGED <<pc, perrun_files, wide, thr_cfg, ri, symptom_rows, cause_rows,
                   outputs, error, engine_vars, classify_vars>>

\* lines 33-34: after the loop
EndFiles ==
    /\ pc = "read" /\ fi > Len(perrun_files)
    /\ IF zwide.none THEN Raise("RuntimeError") ELSE pc' = "physq" /\ error' = error
    /\ UNCHANGED <<perrun_files, fi, zwide, wide, thr_cfg, ri, symptom_rows,
                   cause_rows, outputs, engine_vars, classify_vars>>

\* lines 36-37
MergePhysq ==
    /\ pc = "physq"
    /\ \E physq \in PhysqFrames : wide' = MergeLeft(zwide, physq)
    /\ pc' = "config"
    /\ UNCHANGED <<perrun_files, fi, zwide, thr_cfg, ri, symptom_rows, cause_rows,
                   outputs, error, engine_vars, classify_vars>>

\* lines 39-45: thr_cfg['global'] raises KeyError when the entry is missing
LoadConfig_default ==
    /\ pc = "config"
    /\ \E cm \in ConfigClusterMaps, cfg \in ThrConfigs :
          /\ cluster_map' = cm
          /\ thr_cfg' = cfg
          /\ thr_map' = [k \in DOMAIN cfg \cup {"global"} |->
                            IF k \in DOMAIN cfg THEN cfg[k] ELSE GlobalThr]
          /\ pc' = "rows" /\ error' = error
    /\ UNCHANGED <<perrun_files, fi, zwide, wide, ri, symptom_rows, cause_rows,
                   outputs, run_row, result, calls, classify_vars>>

LoadConfig ==
    /\ pc = "config"
    /\ \E cm \in ConfigClusterMaps, cfg \in ThrConfigs :
          /\ cluster_map' = cm
          /\ thr_cfg' = cfg
          /\ IF "global" \in DOMAIN cfg
               THEN /\ thr_map' = [k \in DOMAIN cfg |-> cfg[k]]
                    /\ pc' = "rows" /\ error' = error
               ELSE /\ thr_map' = thr_map
                    /\ Raise("KeyError")
    /\ UNCHANGED <<perrun_files, fi, zwide, wide, ri, symptom_rows, cause_rows,
                   outputs, run_row, result, calls, classify_vars>>

\* lines 49-58: one iteration of the loop over wide.iterrows()
DiagnoseRow ==
    /\ pc = "rows" /\ ri <= Len(RowOrder(wide.runs))
    /\ LET row == RowDict(wide, RowOrder(wide.runs)[ri])
           res == cluster_scores(row, cluster_map, thr_map)
       IN  /\ run_row' = row
           /\ result' = res
           /\ symptom_rows' = symptom_rows \o SymptomRowsOf(row, res.records)
           /\ cause_rows' = Append(cause_rows, CauseRow(row, res.scores, res.labels))
    /\ calls' = calls + 1
    /\ ri' = ri + 1
    /\ UNCHANGED <<pc, perrun_files, fi, zwide, wide, thr_cfg, outputs, error,
                   cluster_map, thr_map, classify_vars>>

\* line 59: pd.DataFrame(symptom_rows).to_csv(output_symptoms)
WriteSymptoms ==
    /\ pc = "rows" /\ ri > Len(RowOrder(wide.runs))
    /\ outputs' = [k \in DOMAIN outputs \cup {"symptoms"} |->
                      IF k = "symptoms" THEN symptom_rows ELSE outputs[k]]
    /\ pc' = "causes"
    /\ UNCHANGED <<perrun_files, fi, zwide, wide, thr_cfg, ri, symptom_rows,
                   cause_rows, error, engine_vars, classify_vars>>

\* line 60: pd.DataFrame(cause_rows).to_csv(output_causes)
WriteCauses ==
    /\ pc = "causes"
    /\ outputs' = [k \in DOMAIN outputs \cup {"causes"} |->
                      IF k = "causes" THEN cause_rows ELSE outputs[k]]
    /\ pc' = "done"
    /\ UNCHANGED <<perrun_files, fi, zwide, wide, thr_cfg, ri, symptom_rows,
                   cause_rows, error, engine_vars, classify_vars>>

NextDiagnose ==
    \/ Glob
    \/ ReadFile
    \/ EndFiles
    \/ MergePhysq
    \/ LoadConfig
    \/ DiagnoseRow
    \/ WriteSymptoms
    \/ WriteCauses

SpecDiagnose == InitDiagnose /\ [][NextDiagnose]_vars

\* -------------------------------------------------- claims on diagnose_runs
\* The rows of wide already passed to cluster_scores.
ProcessedRuns == {RowOrder(wide.runs)[i] : i \in 1..(ri - 1)}

\* C5 (as claimed): a cell of a run's row left missing by the outer join of
\* the metric tables or by the left join of the physics-quality table adds
\* nothing to any cluster score and gives no row of the symptoms table for
\* that run and that metric or indicator.
C5_MissingCellGivesNoSymptomRow ==
    \A r \in ProcessedRuns : \A c \in wide.cols :
        wide.cell[r][c] = NaN =>
            \A j \in 1..Len(symptom_rows) :
                ~(/\ symptom_rows[j].run = Num(r)
                  /\ (ZKey(symptom_rows[j].metric) = c \/ symptom_rows[j].metric = c))

NoMetricFiles == pc # "glob" /\ perrun_files = <<>>
NoZColumn == pc \notin {"glob", "read"} /\ perrun_files # <<>> /\ zwide.none
NoGlobalEntry == thr_cfg # EmptyDict /\ "global" \notin DOMAIN thr_cfg

\* C7: when no metric file matches, when no file read has a z-score column, or
\* when the threshold configuration has no 'global' entry, diagnose_runs has
\* raised, no row was passed to cluster_scores and neither output file was
\* written.
C7_NoPartialOutputOnFatalError ==
    /\ (NoMetricFiles \/ NoZColumn \/ NoGlobalEntry)
          => pc = "raised" /\ calls = 0 /\ DOMAIN outputs = {}
    /\ error # "" => pc = "raised" /\ calls = 0 /\ DOMAIN outputs = {}

C7_Witness ==
    /\ NoGlobalEntry
    /\ error = "KeyError"
    /\ wide.runs = Runs
    /\ ZKey("A") \in wide.cols
    /\ \E r \in wide.runs : wide.cell[r][ZKey("A")] = Num(MaxZ)

\* C8 (as claimed): every row written to the symptoms table has exactly the
\* columns run, metric, z, severity, cluster, and every row written to the
\* causes table has run, <cluster> and label_<cluster> for every configured
\* cluster.
C8_OutputColumns ==
    /\ "symptoms" \in DOMAIN outputs =>
          \A j \in 1..Len(outputs["symptoms"]) :
              DOMAIN outputs["symptoms"][j] = {"run", "metric", "z", "severity", "cluster"}
    /\ "causes" \in DOMAIN outputs =>
          \A j \in 1..Len(outputs["causes"]) :
              ({"run"} \cup ClusterNames(cluster_map)
                  \cup {LabelKey(c) : c \in ClusterNames(cluster_map)})
              \subseteq DOMAIN outputs["causes"][j]

====
